---- MODULE Spec2Model ----
\* Model of mcp-forge's conformance test client (src/src/mcp_forge/tester.py):
\* the MCPTestClient transport/RPC layer, the probe sequence of run_test_suite
\* and the TestReport aggregate, run against an arbitrary peer process; of the
\* validator (src/src/mcp_forge/validator.py) and of the exit status of the
\* `test` and `validate` commands (src/src/mcp_forge/cli.py).
EXTENDS Naturals, Sequences, FiniteSets

\* ------------------------------------------------------------------ bounds

\* Largest tool list a peer reply carries (only its length and first entry are read).
MaxTools == 1
\* Largest content value a tools/call reply carries (only its length is read).
MaxContent == 1
\* Longest report built by free appends in SpecReport.
MaxResults == 3
\* How many of the peer's replies in one run may differ from the well-formed reply
\* to the request (the peer may exit, or ignore terminate(), in any run).
MaxOddReplies == 2
\* Most ids a client used on its own (SpecClient) hands out.
MaxRequests == 2
\* Most messages a client used on its own (SpecClient) writes.
MaxMessages == 3
\* Most issues a report built by free add_error/add_warning calls holds.
MaxIssues == 3
\* Longest tool list given to validate_tool_definitions.
MaxToolDefs == 2
\* How many chunks of output the peer's standard-error pipe buffers.
PipeCapacity == 2

\* wait(timeout=5) in MCPTestClient.stop
StopTimeout == 5

\* Tool names a peer may list (those of the example weather server).
ToolNames == {"weather", "forecast"}
\* Exceptions subprocess.Popen raises when the command cannot be launched.
StartErrors == {"FileNotFoundError", "PermissionError"}

VARIABLES
    pc,          \* position of run_test_suite
    io,          \* position inside send_request: "idle", or "wait" (blocked in readline)
    process,     \* MCPTestClient._process: "None" or "Popen"
    request_id,  \* MCPTestClient._request_id
    peer,        \* the child process: "none", "running", "exited", or "blocked"
                 \* (alive, inside a write to its full standard-error pipe)
    stdin,       \* every message the client wrote to the peer's standard input
    stdout,      \* the unread line on the peer's standard output (at most one)
    report,      \* TestReport.results
    resp,        \* run_test_suite's local resp
    resp2,       \* run_test_suite's local resp2
    exc,         \* the exception caught by the probe that finished last, and where
    waited,      \* time units spent in wait(timeout=5)
    odd,         \* how many replies of the peer were not the well-formed one
    issues,      \* ValidationReport.issues of the report in hand
    tool_list,   \* the tool list validate_tool_definitions was given last
    project,     \* the project directory validate was given
    exit_code,   \* the exit status of the CLI process: <<>> while it runs
    stderr       \* how many chunks sit unread in the peer's standard-error pipe

\* What the validator and the CLI add to the state of the test client.
validation == <<issues, tool_list, project, exit_code>>

vars == <<pc, io, process, request_id, peer, stdin, stdout, report, resp, resp2, exc, waited, odd, issues, tool_list, project, exit_code, stderr>>

\* ------------------------------------------------------------- JSON values
\* A reply is modelled by what the probes read of it: whether it is an object,
\* an array or a scalar, which of "result"/"error" it holds (keys of an object,
\* elements of an array), and of its result the keys and the tools/content values.

InitKeys == {"protocolVersion", "serverInfo", "capabilities"}

\* The value under a key: vtype "absent" (no such key), "list", "string", "dict",
\* "null" (a falsy scalar) or "number" (a truthy scalar). first describes the first
\* element of a non-empty list: "named" (an object with a name), "unnamed" (an
\* object without one), "nondict".
Val(vtype, len, first, name) == [vtype |-> vtype, len |-> len, first |-> first, name |-> name]

Absent == Val("absent", 0, "", "")

EmptyList == Val("list", 0, "", "")

ToolLists ==
    {EmptyList}
    \cup {Val("list", n, "named", t) : n \in 1..MaxTools, t \in ToolNames}
    \cup {Val("list", n, f, "") : n \in 1..MaxTools, f \in {"unnamed", "nondict"}}

NonLists(max) ==
    {Val(v, n, "", "") : v \in {"string", "dict"}, n \in 0..max}
    \cup {Val("null", 0, "", ""), Val("number", 0, "", "")}

ToolsValues == {Absent} \cup ToolLists \cup NonLists(MaxTools)

ContentValues ==
    {Absent} \cup {Val("list", n, "", "") : n \in 0..MaxContent} \cup NonLists(MaxContent)

\* resp["result"]: rtype "object", "array" or "scalar"; keys are the keys of an
\* object or the string elements of an array.
Res(rtype, keys, tools, content) == [rtype |-> rtype, keys |-> keys, tools |-> tools, content |-> content]

NoRes == Res("scalar", {}, Absent, Absent)

\* A parsed reply line. For an array, hasResult/hasError say whether the strings
\* "result"/"error" are among its elements.
Json(jtype, hasResult, hasError, result) == [jtype |-> jtype, hasResult |-> hasResult, hasError |-> hasError, result |-> result]

\* The value of an unbound local.
Unbound == Json("unbound", FALSE, FALSE, NoRes)

\* The results a peer can put in its reply to `method`: the keys no probe of that
\* method reads are left out.
ResultsFor(method) ==
    {NoRes}
    \cup (CASE method = "initialize" ->
                {Res(t, k, Absent, Absent) : t \in {"object", "array"}, k \in SUBSET InitKeys}
            [] method = "tools/list" ->
                {Res("object", {}, v, Absent) : v \in ToolsValues} \cup {Res("array", {}, Absent, Absent)}
            [] method = "tools/call" ->
                {Res("object", {}, Absent, v) : v \in ContentValues} \cup {Res("array", {}, Absent, Absent)}
            [] OTHER ->
                {Res(t, {}, Absent, Absent) : t \in {"object", "array"}})

JsonFor(method) ==
    {Json("scalar", FALSE, FALSE, NoRes)}
    \cup {Json("array", r, e, NoRes) : r \in BOOLEAN, e \in BOOLEAN}
    \cup {Json("object", FALSE, e, NoRes) : e \in BOOLEAN}
    \cup {Json("object", TRUE, e, r) : e \in BOOLEAN, r \in ResultsFor(method)}

\* A line on the peer's standard output: valid JSON or not.
Line(valid, json) == [valid |-> valid, json |-> json]

LinesFor(method) == {Line(FALSE, Unbound)} \cup {Line(TRUE, j) : j \in JsonFor(method)}

\* The reply of a conforming server to `method`, as the schemas of validator.py and
\* the example weather server describe it.
WellFormed(method) ==
    Line(TRUE,
        CASE method = "initialize" -> Json("object", TRUE, FALSE, Res("object", InitKeys, Absent, Absent))
          [] method = "tools/list" ->
                Json("object", TRUE, FALSE, Res("object", {}, Val("list", 1, "named", "weather"), Absent))
          [] method = "tools/call" ->
                Json("object", TRUE, FALSE, Res("object", {}, Absent, Val("list", 1, "", "")))
          [] method = "ping" -> Json("object", TRUE, FALSE, Res("object", {}, Absent, Absent))
          [] OTHER -> Json("object", FALSE, TRUE, NoRes))

\* ---------------------------------------------------------------- results

\* TestResult.message, by its format string and the values formatted into it.
Msg(kind, flags, n, arg) == [kind |-> kind, flags |-> flags, n |-> n, arg |-> arg]

Text(kind) == Msg(kind, <<>>, 0, "")

\* str(exc)
Str(e) == Msg("exc", <<>>, 0, e)

\* TestResult(name, passed, message, response); of response only its presence is kept.
TestResult(name, passed, message, response) == [name |-> name, passed |-> passed, message |-> message, response |-> response]

\* TestReport.passed
Passed(results) == Cardinality({i \in 1..Len(results) : results[i].passed})

\* A failed count that takes the failing results by name.
FailedByName(results) == Cardinality({results[i].name : i \in {j \in 1..Len(results) : ~results[j].passed}})

\* TestReport.failed
Failed(results) == Cardinality({i \in 1..Len(results) : ~results[i].passed})

\* TestReport.total
Total(results) == Len(results)

\* ------------------------------------------------------ the probes' bodies
\* What a probe's try block does with a reply once send_request returned it:
\* it appends a result ("result"), raises ("raise"), or goes on to a second
\* request ("call").

NoResult == TestResult("", FALSE, Text(""), FALSE)

Appends(r) == [kind |-> "result", result |-> r, exc |-> "none"]

Raises(e) == [kind |-> "raise", result |-> NoResult, exc |-> e]

Calls == [kind |-> "call", result |-> NoResult, exc |-> "none"]

\* f"Error: {resp.get('error')}" of a reply without result: a list has no get.
ErrorBranch(name, r) ==
    IF r.jtype = "array" THEN Raises("AttributeError")
    ELSE Appends(TestResult(name, FALSE, Msg("Error", <<>>, 0, IF r.hasError THEN "error" ELSE "None"), TRUE))

\* `"result" in resp` followed by resp["result"]: a scalar is not iterable, a
\* list is not indexed by a string.
ResultLookupRaises(r) == r.jtype = "scalar" \/ (r.hasResult /\ r.jtype = "array")

\* An initialize probe that does not require capabilities.
InitializeBodyWithoutCaps(r) ==
    IF ResultLookupRaises(r) THEN Raises("TypeError")
    ELSE IF r.hasResult THEN
        LET result == r.result
            has_version == "protocolVersion" \in result.keys
            has_info == "serverInfo" \in result.keys
            has_caps == "capabilities" \in result.keys
            ok == has_version /\ has_info
            msg == IF ok THEN Text("initialize response valid")
                   ELSE Msg("Missing fields", <<has_version, has_info, has_caps>>, 0, "")
        IN  IF result.rtype = "scalar" THEN Raises("TypeError")
            ELSE Appends(TestResult("initialize", ok, msg, TRUE))
    ELSE ErrorBranch("initialize", r)

\* initialize
InitializeBody(r) ==
    IF ResultLookupRaises(r) THEN Raises("TypeError")
    ELSE IF r.hasResult THEN
        LET result == r.result
            has_version == "protocolVersion" \in result.keys
            has_info == "serverInfo" \in result.keys
            has_caps == "capabilities" \in result.keys
            ok == has_version /\ has_info /\ has_caps
            msg == IF ok THEN Text("initialize response valid")
                   ELSE Msg("Missing fields", <<has_version, has_info, has_caps>>, 0, "")
        IN  IF result.rtype = "scalar" THEN Raises("TypeError")
            ELSE Appends(TestResult("initialize", ok, msg, TRUE))
    ELSE ErrorBranch("initialize", r)

\* isinstance(tools, list)
IsList(v) == v.vtype = "list"

\* len(v) raises TypeError for a scalar
HasLen(v) == v.vtype \in {"list", "string", "dict"}

\* A .get whose default is a number.
GetOrOne(v) == IF v.vtype = "absent" THEN Val("number", 0, "", "") ELSE v

\* dict.get(key, []): the default for an absent key is the empty list
GetOrEmpty(v) == IF v.vtype = "absent" THEN EmptyList ELSE v

\* tools/list
ToolsListBody(r) ==
    IF ResultLookupRaises(r) THEN Raises("TypeError")
    ELSE IF r.hasResult THEN
        IF r.result.rtype # "object" THEN Raises("AttributeError")
        ELSE LET tools == GetOrEmpty(r.result.tools)
                 ok == IsList(tools)
             IN  IF ~HasLen(tools) THEN Raises("TypeError")
                 ELSE Appends(TestResult("tools/list", ok, Msg("Found tools", <<>>, tools.len, ""), TRUE))
    ELSE ErrorBranch("tools/list", r)

\* A truth test that takes every sized value, the empty ones too, as true.
TruthyWhenEmpty(v) == HasLen(v) \/ v.vtype = "number"

\* bool(v): `if tools:`
Truthy(v) == (HasLen(v) /\ v.len > 0) \/ v.vtype = "number"

\* tools = resp.get("result", {}).get("tools", []) of the re-fetched list
RefetchedTools(r) == IF r.hasResult THEN GetOrEmpty(r.result.tools) ELSE EmptyList

\* tools[0]["name"]
tool_name(r) == RefetchedTools(r).name

\* tools/call, first half: the re-fetched tool list
RefetchBody(r) ==
    IF r.jtype # "object" THEN Raises("AttributeError")
    ELSE IF r.hasResult /\ r.result.rtype # "object" THEN Raises("AttributeError")
    ELSE LET tools == RefetchedTools(r)
         IN  IF Truthy(tools) THEN
                 CASE tools.vtype = "list" /\ tools.first = "named" -> Calls
                   [] tools.vtype = "list" /\ tools.first = "unnamed" -> Raises("KeyError")
                   [] tools.vtype = "dict" -> Raises("KeyError")
                   [] OTHER -> Raises("TypeError")
             ELSE Appends(TestResult("tools/call", TRUE, Text("No tools to test (skipped)"), FALSE))

\* tools/call, second half: the reply to the call
CallBody(r, name) ==
    IF ResultLookupRaises(r) THEN Raises("TypeError")
    ELSE IF r.hasResult THEN
        IF r.result.rtype # "object" THEN Raises("AttributeError")
        ELSE LET content == GetOrEmpty(r.result.content)
                 ok == content.len > 0
             IN  IF ~HasLen(content) THEN Raises("TypeError")
                 ELSE Appends(TestResult("tools/call", ok, Msg("Called successfully", <<>>, 0, name), TRUE))
    ELSE ErrorBranch("tools/call", r)

\* ping
PingBody(r) ==
    IF r.jtype = "scalar" THEN Raises("TypeError")
    ELSE IF r.hasResult THEN Appends(TestResult("ping", TRUE, Text("Ping OK"), TRUE))
    ELSE ErrorBranch("ping", r)

\* unknown_method
UnknownBody(r) ==
    IF r.jtype = "scalar" THEN Raises("TypeError")
    ELSE LET ok == r.hasError
         IN  Appends(TestResult("unknown_method", ok,
                 IF ok THEN Text("Correctly returned error for unknown method")
                 ELSE Text("Should have returned error"), TRUE))

\* ------------------------------------------------------------ the sequence

\* The positions of run_test_suite at which a request is sent. "refetch" is the
\* first request of the tools/call probe, "tools/call" its second.
RequestPcs == {"initialize", "tools/list", "refetch", "tools/call", "ping", "unknown_method"}

\* A sequence in which the skipped tools/call probe goes on to the call.
NextPcCallsAnyway(p) ==
    CASE p = "initialize" -> "tools/list"
      [] p = "tools/list" -> "refetch"
      [] p = "refetch" -> "tools/call"
      [] p = "tools/call" -> "ping"
      [] p = "ping" -> "unknown_method"
      [] p = "unknown_method" -> "stop"

\* The position after the probe at `p` has recorded its result.
NextPc(p) ==
    CASE p = "initialize" -> "tools/list"
      [] p = "tools/list" -> "refetch"
      [] p = "refetch" -> "ping"
      [] p = "tools/call" -> "ping"
      [] p = "ping" -> "unknown_method"
      [] p = "unknown_method" -> "stop"

\* The name of the TestResult the probe at `p` records.
ProbeName(p) == IF p = "refetch" THEN "tools/call" ELSE p

\* The method send_request is called with at `p`.
Method(p) ==
    CASE p = "refetch" -> "tools/list"
      [] p = "unknown_method" -> "nonexistent/method"
      [] OTHER -> p

\* The params send_request is called with at `p`, as key/value pairs; empty when
\* the call passes none.
Params(p) ==
    CASE p = "initialize" ->
            << <<"protocolVersion", "2024-11-05">>, <<"capabilities", "{}">>,
               <<"clientInfo", "{name: mcp-forge-tester, version: 0.1.0}">> >>
      [] p = "tools/call" -> << <<"name", tool_name(resp)>>, <<"arguments", "{query: test}">> >>
      [] OTHER -> <<>>

\* The request send_request serialises: params only `if params`.
Request(id, method, params) == [jsonrpc |-> "2.0", id |-> id, method |-> method, params |-> params]

\* What the probe at `p` does with the reply `r`.
Body(p, r) ==
    CASE p = "initialize" -> InitializeBody(r)
      [] p = "tools/list" -> ToolsListBody(r)
      [] p = "refetch" -> RefetchBody(r)
      [] p = "tools/call" -> CallBody(r, tool_name(resp))
      [] p = "ping" -> PingBody(r)
      [] p = "unknown_method" -> UnknownBody(r)

\* --------------------------------------------------------------- validator
\* validator.py: ValidationReport, validate_tool_definitions and
\* validate_project_structure, as functions of what they read of their input.

ValidationIssue(level, category, message) == [level |-> level, category |-> category, message |-> message]

Categories == {"structure", "tools"}

\* An errors property that takes the issues of one category only.
errors_of_tools(iss) ==
    LET IsError(i) == i.level = "error" /\ i.category = "tools"
    IN  SelectSeq(iss, IsError)

\* ValidationReport.errors
errors(iss) ==
    LET IsError(i) == i.level = "error"
    IN  SelectSeq(iss, IsError)

\* ValidationReport.warnings
warnings(iss) ==
    LET IsWarning(i) == i.level = "warning"
    IN  SelectSeq(iss, IsWarning)

\* ValidationReport.is_valid
is_valid(iss) == Len(errors(iss)) = 0

\* A tool definition: the value of tool.get("name") (Missing: no such key, the
\* empty string, a name, or a value that is no string) and whether the rest of it conforms to TOOL_SCHEMA.
Missing == "<missing>"

\* A name that cannot be hashed: a JSON array or object.
Unhashable == "<unhashable>"

ToolDef(name, rest) == [name |-> name, rest |-> rest]

ToolDefs == {ToolDef(n, r) : n \in ToolNames \cup {"", Missing, Unhashable}, r \in BOOLEAN}

\* The tool lists of at most n tool definitions.
ToolDefLists(n) == UNION {[1..k -> ToolDefs] : k \in 0..n}

\* jsonschema.validate(tool, TOOL_SCHEMA) does not raise.
Conforms(tool) == tool.name \in ToolNames /\ tool.rest

\* The errors of the schema loop: one for each tool that does not conform.
SchemaErrors(ts) ==
    LET F[i \in 0..Len(ts)] ==
            IF i = 0 THEN <<>>
            ELSE IF Conforms(ts[i]) THEN F[i - 1]
            ELSE Append(F[i - 1], ValidationIssue("error", "tools", Msg("Tool #", <<>>, i - 1, ts[i].name)))
    IN  F[Len(ts)]

\* `seen` before the i-th name is looked up: the truthy names before it.
Seen(ts, i) == {ts[j].name : j \in 1..(i - 1)} \ {"", Missing}

\* The errors of the duplicate loop: one for each name already in `seen`.
DuplicateErrors(ts) ==
    LET F[i \in 0..Len(ts)] ==
            IF i = 0 THEN <<>>
            ELSE IF ts[i].name \in Seen(ts, i)
                 THEN Append(F[i - 1], ValidationIssue("error", "tools", Msg("Duplicate tool name", <<>>, 0, ts[i].name)))
            ELSE F[i - 1]
    IN  F[Len(ts)]

\* `name in seen` raises TypeError: a name of the list cannot be hashed.
LookupRaises(ts) == \E i \in 1..Len(ts) : ts[i].name = Unhashable

\* validate_tool_definitions(tools).issues, when the call returns.
validate_tool_definitions(ts) ==
    IF ts = <<>> THEN <<ValidationIssue("warning", "tools", Text("No tools defined"))>>
    ELSE SchemaErrors(ts) \o DuplicateErrors(ts)

required_files == <<"server.py", "tools.py">>

recommended == <<"README.md", "Dockerfile", ".gitignore">>

\* A project directory: whether the path exists, whether it holds
\* pyproject.toml, what src is ("absent", a "file" or a "dir"), the packages in
\* src (each the set of required files it holds) and the recommended files.
Project(exists, pyproject, src, packages, files) == [exists |-> exists, pyproject |-> pyproject, src |-> src, packages |-> packages, files |-> files]

NoProject == Project(FALSE, FALSE, "absent", {}, {})

Range(seq) == {seq[i] : i \in 1..Len(seq)}

Projects ==
    {NoProject}
    \cup {Project(TRUE, py, src, {}, f) : py \in BOOLEAN, src \in {"absent", "file", "dir"}, f \in SUBSET Range(recommended)}
    \cup {Project(TRUE, py, "dir", pk, f) : py \in BOOLEAN, pk \in SUBSET (SUBSET Range(required_files)), f \in SUBSET Range(recommended)}

\* The entries of `names` that are not in `present`, in order, each as an issue.
MissingIssues(names, present, level, kind) ==
    LET Absent_(f) == f \notin present
        miss == SelectSeq(names, Absent_)
    IN  [i \in 1..Len(miss) |-> ValidationIssue(level, "structure", Msg(kind, <<>>, 0, miss[i]))]

\* The report before src/ is looked at.
PyprojectIssues(p) ==
    IF p.pyproject THEN <<>> ELSE <<ValidationIssue("error", "structure", Text("Missing pyproject.toml"))>>

\* validate_project_structure(project_dir).issues, pkg being packages[0]; src is
\* absent or a directory.
validate_project_structure(p, pkg) ==
    IF p.src = "absent" THEN
        Append(PyprojectIssues(p), ValidationIssue("error", "structure", Text("Missing src/ directory")))
    ELSE IF p.packages = {} THEN
        Append(PyprojectIssues(p), ValidationIssue("error", "structure", Text("No Python package found in src/")))
    ELSE PyprojectIssues(p)
            \o MissingIssues(required_files, pkg, "error", "Missing in package")
            \o MissingIssues(recommended, p.files, "warning", "Missing recommended file")

NoExc == [type |-> "none", at |-> ""]

Init ==
    /\ pc = "start"
    /\ io = "idle"
    /\ process = "None"
    /\ request_id = 0
    /\ peer = "none"
    /\ stdin = <<>>
    /\ stdout = <<>>
    /\ report = <<>>
    /\ resp = Unbound
    /\ resp2 = Unbound
    /\ exc = NoExc
    /\ waited = 0
    /\ odd = 0
    /\ issues = <<>>
    /\ tool_list = <<>>
    /\ project = NoProject
    /\ exit_code = <<>>
    /\ stderr = 0

\* A start whose except block records the failure and does not return.
StartWithoutReturn ==
    /\ pc = "start"
    /\ \/ /\ process' = "Popen"
          /\ peer' = "running"
          /\ report' = Append(report, TestResult("server_start", TRUE, Text("Server started successfully"), FALSE))
          /\ pc' = "initialize"
          /\ exc' = NoExc
       \/ \E e \in StartErrors :
          /\ report' = Append(report, TestResult("server_start", FALSE, Str(e), FALSE))
          /\ exc' = [type |-> e, at |-> "start"]
          /\ pc' = "initialize"
          /\ UNCHANGED <<process, peer>>
    /\ UNCHANGED <<io, request_id, stdin, stdout, resp, resp2, waited, odd>>
    /\ UNCHANGED <<validation, stderr>>

\* client.start() and the result it records: Popen either returns a process or raises.
Start ==
    /\ pc = "start"
    /\ \/ /\ process' = "Popen"
          /\ peer' = "running"
          /\ report' = Append(report, TestResult("server_start", TRUE, Text("Server started successfully"), FALSE))
          /\ pc' = "initialize"
          /\ exc' = NoExc
       \/ \E e \in StartErrors :
          /\ report' = Append(report, TestResult("server_start", FALSE, Str(e), FALSE))
          /\ exc' = [type |-> e, at |-> "start"]
          /\ pc' = "returned"
          /\ UNCHANGED <<process, peer>>
    /\ UNCHANGED <<io, request_id, stdin, stdout, resp, resp2, waited, odd>>
    /\ UNCHANGED <<validation, stderr>>

\* A probe without its except block: the exception leaves run_test_suite.
CatchNothing(p, e) ==
    /\ exc' = [type |-> e, at |-> p]
    /\ pc' = "raised"
    /\ io' = "idle"
    /\ UNCHANGED report

\* An except block that records the probe as skipped.
CatchAsSkipped(p, e) ==
    /\ report' = Append(report, TestResult(ProbeName(p), TRUE, Text("skipped"), FALSE))
    /\ exc' = [type |-> e, at |-> p]
    /\ pc' = NextPc(p)
    /\ io' = "idle"

\* except Exception as exc: the probe at `p` records a failing result carrying
\* str(exc) and the sequence goes on.
Catch(p, e) ==
    /\ report' = Append(report, TestResult(ProbeName(p), FALSE, Str(e), FALSE))
    /\ exc' = [type |-> e, at |-> p]
    /\ pc' = NextPc(p)
    /\ io' = "idle"

\* send_request up to the flush: the check of the process, the id, the write.
ProbeWrite ==
    /\ pc \in RequestPcs
    /\ io = "idle"
    /\ IF process = "None" THEN
            /\ Catch(pc, "Server not started")
            /\ UNCHANGED <<request_id, stdin>>
       ELSE /\ request_id' = request_id + 1
            /\ IF peer # "exited" THEN
                    /\ stdin' = Append(stdin, Request(request_id', Method(pc), Params(pc)))
                    /\ io' = "wait"
                    /\ UNCHANGED <<pc, report, exc>>
               ELSE /\ Catch(pc, "BrokenPipeError")
                    /\ UNCHANGED stdin
    /\ UNCHANGED <<process, peer, stdout, resp, resp2, waited, odd>>
    /\ UNCHANGED <<validation, stderr>>

\* The peer answers the request in flight with one line of its choice.
PeerReply ==
    /\ peer = "running"
    /\ io = "wait"
    /\ stdout = <<>>
    /\ \E l \in LinesFor(Method(pc)) :
            /\ stdout' = <<l>>
            /\ IF l = WellFormed(Method(pc)) THEN odd' = odd
               ELSE odd < MaxOddReplies /\ odd' = odd + 1
    /\ UNCHANGED <<pc, io, process, request_id, peer, stdin, report, resp, resp2, exc, waited>>
    /\ UNCHANGED <<validation, stderr>>

\* The peer exits: on its own at any time, or after terminate().
PeerExit ==
    /\ peer = "running"
    /\ peer' = "exited"
    /\ UNCHANGED <<pc, io, process, request_id, stdin, stdout, report, resp, resp2, exc, waited, odd>>
    /\ UNCHANGED <<validation, stderr>>

\* send_request from readline on, and the rest of the probe's try block.
ProbeRead ==
    /\ pc \in RequestPcs
    /\ io = "wait"
    /\ stdout # <<>> \/ peer = "exited"
    /\ stdout' = <<>>
    /\ IF stdout = <<>> THEN
            /\ Catch(pc, "No response from server")
            /\ UNCHANGED <<resp, resp2>>
       ELSE IF ~Head(stdout).valid THEN
            /\ Catch(pc, "JSONDecodeError")
            /\ UNCHANGED <<resp, resp2>>
       ELSE LET r == Head(stdout).json
                out == Body(pc, r)
            IN  /\ IF pc = "tools/call" THEN resp2' = r /\ UNCHANGED resp
                                         ELSE resp' = r /\ UNCHANGED resp2
                /\ CASE out.kind = "raise" -> Catch(pc, out.exc)
                     [] out.kind = "call" ->
                            /\ pc' = "tools/call"
                            /\ io' = "idle"
                            /\ UNCHANGED <<report, exc>>
                     [] OTHER ->
                            /\ report' = Append(report, out.result)
                            /\ exc' = NoExc
                            /\ pc' = NextPc(pc)
                            /\ io' = "idle"
    /\ UNCHANGED <<process, request_id, peer, stdin, waited, odd>>
    /\ UNCHANGED <<validation, stderr>>

\* client.stop() up to wait(): `if self._process`, terminate().
StopTerminate ==
    /\ pc = "stop"
    /\ IF process = "None" THEN
            /\ report' = Append(report, TestResult("server_stop", TRUE, Text("Server stopped cleanly"), FALSE))
            /\ pc' = "returned"
       ELSE /\ pc' = "wait"
            /\ UNCHANGED report
    /\ waited' = 0
    /\ UNCHANGED <<io, process, request_id, peer, stdin, stdout, resp, resp2, exc, odd>>
    /\ UNCHANGED <<validation, stderr>>

\* One time unit of wait(timeout=5) passes with the peer still running.
Tick ==
    /\ pc = "wait"
    /\ peer = "running"
    /\ waited < StopTimeout
    /\ waited' = waited + 1
    /\ UNCHANGED <<pc, io, process, request_id, peer, stdin, stdout, report, resp, resp2, exc, odd>>
    /\ UNCHANGED <<validation, stderr>>

\* A return after stop() that records no server_stop.
StopDoneUnrecorded ==
    /\ pc = "wait"
    /\ peer = "exited"
    /\ process' = "None"
    /\ pc' = "returned"
    /\ waited' = 0
    /\ UNCHANGED <<io, request_id, peer, stdin, stdout, report, resp, resp2, exc, odd>>
    /\ UNCHANGED <<validation, stderr>>

\* wait() returns because the peer has exited: stop() clears _process and
\* run_test_suite records server_stop and returns the report.
StopDone ==
    /\ pc = "wait"
    /\ peer = "exited"
    /\ process' = "None"
    /\ report' = Append(report, TestResult("server_stop", TRUE, Text("Server stopped cleanly"), FALSE))
    /\ pc' = "returned"
    /\ waited' = 0
    /\ UNCHANGED <<io, request_id, peer, stdin, stdout, resp, resp2, exc, odd>>
    /\ UNCHANGED <<validation, stderr>>

\* wait() raises TimeoutExpired: nothing in stop() or run_test_suite catches it.
StopTimedOut ==
    /\ pc = "wait"
    /\ peer = "running"
    /\ waited = StopTimeout
    /\ exc' = [type |-> "TimeoutExpired", at |-> "stop"]
    /\ pc' = "raised"
    /\ UNCHANGED <<io, process, request_id, peer, stdin, stdout, report, resp, resp2, waited, odd>>
    /\ UNCHANGED <<validation, stderr>>

Next ==
    \/ Start
    \/ ProbeWrite
    \/ PeerReply
    \/ PeerExit
    \/ ProbeRead
    \/ StopTerminate
    \/ Tick
    \/ StopDone
    \/ StopTimedOut

Spec == Init /\ [][Next]_vars

\* -------------------------------------------------------------- TestReport
\* A TestReport on its own: results are appended in any order and number.

\* The names run_test_suite gives its results, in the order it records them.
ProbeOrder == <<"server_start", "initialize", "tools/list", "tools/call", "ping", "unknown_method", "server_stop">>

\* report.results.append(TestResult(...))
AppendResult ==
    /\ Len(report) < MaxResults
    /\ \E i \in 1..Len(ProbeOrder), passed \in BOOLEAN :
            report' = Append(report, TestResult(ProbeOrder[i], passed, Text(""), FALSE))
    /\ UNCHANGED <<pc, io, process, request_id, peer, stdin, stdout, resp, resp2, exc, waited, odd>>
    /\ UNCHANGED <<validation, stderr>>

NextReport == AppendResult

SpecReport == Init /\ [][NextReport]_vars

\* ----------------------------------------------------------- MCPTestClient
\* An MCPTestClient on its own: a caller constructs it and calls start, stop,
\* send_request and send_notification in any order, against a peer that answers
\* each request once, echoing its id, and that may also write lines nobody asked
\* for (counted in odd). pc is the call in progress or finished last; resp is the
\* value send_request returned last; exc is the exception the last call raised.

\* Requests a caller sends: one with params and one without.
ClientCalls == {"initialize", "ping"}

\* The dict send_notification serialises: no id.
Notification(method, params) == [jsonrpc |-> "2.0", method |-> method, params |-> params]

Last(seq) == seq[Len(seq)]

IsRequest(m) == "id" \in DOMAIN m

\* self._request_id += 1, without the increment.
SameId(id) == id

\* self._request_id += 1
NextId(id) == id + 1

\* A line of the peer's output with the id it carries (0: none).
Reply(valid, json, id) == [valid |-> valid, json |-> json, id |-> id]

\* MCPTestClient.__init__
InitClient ==
    /\ pc = "__init__"
    /\ io = "idle"
    /\ process = "None"
    /\ request_id = 0
    /\ peer = "none"
    /\ stdin = <<>>
    /\ stdout = <<>>
    /\ report = <<>>
    /\ resp = Unbound
    /\ resp2 = Unbound
    /\ exc = NoExc
    /\ waited = 0
    /\ odd = 0
    /\ issues = <<>>
    /\ tool_list = <<>>
    /\ project = NoProject
    /\ exit_code = <<>>
    /\ stderr = 0

\* No call is in progress: the caller may make one.
Ready == io = "idle" /\ pc # "wait"

\* start(): Popen returns a process or raises. A client is started once, as
\* run_test_suite starts the one it constructs.
start ==
    /\ Ready
    /\ peer = "none"
    /\ pc' = "start"
    /\ \/ /\ process' = "Popen"
          /\ peer' = "running"
          /\ exc' = NoExc
       \/ \E e \in StartErrors :
          /\ exc' = [type |-> e, at |-> "start"]
          /\ UNCHANGED <<process, peer>>
    /\ UNCHANGED <<io, request_id, stdin, stdout, report, resp, resp2, waited, odd>>
    /\ UNCHANGED <<validation, stderr>>

\* A send_request that writes without waiting for the call before it to return.
send_request_pipelined ==
    /\ pc # "wait"
    /\ request_id < MaxRequests
    /\ Len(stdin) < MaxMessages
    /\ process = "Popen" /\ peer = "running"
    /\ pc' = "send_request"
    /\ request_id' = NextId(request_id)
    /\ \E p \in ClientCalls : stdin' = Append(stdin, Request(request_id', Method(p), Params(p)))
    /\ io' = "wait"
    /\ exc' = NoExc
    /\ UNCHANGED <<process, peer, stdout, report, resp, resp2, waited, odd>>
    /\ UNCHANGED <<validation, stderr>>

\* A send_request that takes its id before it checks the process.
send_request_counts_first ==
    /\ Ready
    /\ request_id < MaxRequests
    /\ Len(stdin) < MaxMessages
    /\ pc' = "send_request"
    /\ request_id' = NextId(request_id)
    /\ IF process = "None" THEN
            /\ exc' = [type |-> "Server not started", at |-> "send_request"]
            /\ UNCHANGED <<stdin, io>>
       ELSE IF peer = "running" THEN
            /\ \E p \in ClientCalls :
                    stdin' = Append(stdin, Request(request_id', Method(p), Params(p)))
            /\ io' = "wait"
            /\ exc' = NoExc
       ELSE /\ exc' = [type |-> "BrokenPipeError", at |-> "send_request"]
            /\ UNCHANGED <<stdin, io>>
    /\ UNCHANGED <<process, peer, stdout, report, resp, resp2, waited, odd>>
    /\ UNCHANGED <<validation, stderr>>

\* send_request up to the flush: the check of the process, the id, the write.
send_request_write ==
    /\ Ready
    /\ request_id < MaxRequests
    /\ Len(stdin) < MaxMessages
    /\ pc' = "send_request"
    /\ IF process = "None" THEN
            /\ exc' = [type |-> "Server not started", at |-> "send_request"]
            /\ UNCHANGED <<request_id, stdin, io>>
       ELSE /\ request_id' = NextId(request_id)
            /\ IF peer = "running" THEN
                    /\ \E p \in ClientCalls :
                            stdin' = Append(stdin, Request(request_id', Method(p), Params(p)))
                    /\ io' = "wait"
                    /\ exc' = NoExc
               ELSE /\ exc' = [type |-> "BrokenPipeError", at |-> "send_request"]
                    /\ UNCHANGED <<stdin, io>>
    /\ UNCHANGED <<process, peer, stdout, report, resp, resp2, waited, odd>>
    /\ UNCHANGED <<validation, stderr>>

\* A readline that returns the line and leaves it in the pipe.
send_request_peek ==
    /\ pc = "send_request"
    /\ io = "wait"
    /\ stdout # <<>> \/ peer = "exited"
    /\ io' = "idle"
    /\ IF stdout = <<>> THEN
            /\ exc' = [type |-> "No response from server", at |-> "send_request"]
            /\ UNCHANGED <<resp, stdout>>
       ELSE /\ stdout' = stdout
            /\ IF Head(stdout).valid THEN resp' = Head(stdout) /\ exc' = NoExc
               ELSE /\ exc' = [type |-> "JSONDecodeError", at |-> "send_request"]
                    /\ UNCHANGED resp
    /\ UNCHANGED <<pc, process, request_id, peer, stdin, report, resp2, waited, odd>>
    /\ UNCHANGED <<validation, stderr>>

\* send_request from readline on: one line is taken from the pipe and parsed,
\* or the end of the stream is met.
send_request_read ==
    /\ pc = "send_request"
    /\ io = "wait"
    /\ stdout # <<>> \/ peer = "exited"
    /\ io' = "idle"
    /\ IF stdout = <<>> THEN
            /\ exc' = [type |-> "No response from server", at |-> "send_request"]
            /\ UNCHANGED <<resp, stdout>>
       ELSE /\ stdout' = Tail(stdout)
            /\ IF Head(stdout).valid THEN resp' = Head(stdout) /\ exc' = NoExc
               ELSE /\ exc' = [type |-> "JSONDecodeError", at |-> "send_request"]
                    /\ UNCHANGED resp
    /\ UNCHANGED <<pc, process, request_id, peer, stdin, report, resp2, waited, odd>>
    /\ UNCHANGED <<validation, stderr>>

\* A send_notification that takes an id from the counter.
send_notification_counted ==
    /\ Ready
    /\ Len(stdin) < MaxMessages
    /\ request_id < MaxRequests
    /\ pc' = "send_notification"
    /\ IF process = "None" THEN
            /\ exc' = [type |-> "Server not started", at |-> "send_notification"]
            /\ UNCHANGED <<stdin, request_id>>
       ELSE IF peer = "running" THEN
            /\ request_id' = NextId(request_id)
            /\ stdin' = Append(stdin, Notification("notifications/initialized", <<>>))
            /\ exc' = NoExc
       ELSE /\ exc' = [type |-> "BrokenPipeError", at |-> "send_notification"]
            /\ UNCHANGED <<stdin, request_id>>
    /\ UNCHANGED <<io, process, peer, stdout, report, resp, resp2, waited, odd>>
    /\ UNCHANGED <<validation, stderr>>

\* send_notification: the check of the process, the write; no id, no read.
send_notification ==
    /\ Ready
    /\ Len(stdin) < MaxMessages
    /\ pc' = "send_notification"
    /\ IF process = "None" THEN
            /\ exc' = [type |-> "Server not started", at |-> "send_notification"]
            /\ UNCHANGED stdin
       ELSE IF peer = "running" THEN
            /\ stdin' = Append(stdin, Notification("notifications/initialized", <<>>))
            /\ exc' = NoExc
       ELSE /\ exc' = [type |-> "BrokenPipeError", at |-> "send_notification"]
            /\ UNCHANGED stdin
    /\ UNCHANGED <<io, process, request_id, peer, stdout, report, resp, resp2, waited, odd>>
    /\ UNCHANGED <<validation, stderr>>

\* A stop() that waits for a process it does not hold.
stop_unguarded ==
    /\ Ready
    /\ pc' = "wait"
    /\ exc' = NoExc
    /\ waited' = 0
    /\ UNCHANGED <<io, process, request_id, peer, stdin, stdout, report, resp, resp2, odd>>
    /\ UNCHANGED <<validation, stderr>>

\* stop() up to wait(): `if self._process`, terminate(). Without a process the
\* call returns at once.
stop ==
    /\ Ready
    /\ pc' = (IF process = "None" THEN "stop" ELSE "wait")
    /\ exc' = NoExc
    /\ waited' = 0
    /\ UNCHANGED <<io, process, request_id, peer, stdin, stdout, report, resp, resp2, odd>>
    /\ UNCHANGED <<validation, stderr>>

\* wait() returns because the peer has exited: stop() clears _process.
stop_returns ==
    /\ pc = "wait"
    /\ peer = "exited"
    /\ process' = "None"
    /\ pc' = "stop"
    /\ waited' = 0
    /\ UNCHANGED <<io, request_id, peer, stdin, stdout, report, resp, resp2, exc, odd>>
    /\ UNCHANGED <<validation, stderr>>

\* wait() raises TimeoutExpired out of stop(): _process stays set.
stop_raises ==
    /\ pc = "wait"
    /\ peer = "running"
    /\ waited = StopTimeout
    /\ exc' = [type |-> "TimeoutExpired", at |-> "stop"]
    /\ pc' = "stop"
    /\ waited' = 0
    /\ UNCHANGED <<io, process, request_id, peer, stdin, stdout, report, resp, resp2, odd>>
    /\ UNCHANGED <<validation, stderr>>

\* The peer answers the request in flight, once, echoing its id.
PeerAnswer ==
    /\ peer = "running"
    /\ io = "wait"
    /\ \A i \in 1..Len(stdout) : stdout[i].id # request_id
    /\ stdout' = Append(stdout, Reply(TRUE, WellFormed(Last(stdin).method).json, Last(stdin).id))
    /\ UNCHANGED <<pc, io, process, request_id, peer, stdin, report, resp, resp2, exc, waited, odd>>
    /\ UNCHANGED <<validation, stderr>>

\* The peer writes a line no request asked for: not JSON, or a reply carrying no
\* id (0) or the id the next request will have.
PeerUnasked ==
    /\ peer = "running"
    /\ odd < MaxOddReplies
    /\ odd' = odd + 1
    /\ \E l \in {Reply(FALSE, Unbound, 0)} \cup {Reply(TRUE, WellFormed("ping").json, n) : n \in {0, request_id + 1}} :
            stdout' = Append(stdout, l)
    /\ UNCHANGED <<pc, io, process, request_id, peer, stdin, report, resp, resp2, exc, waited>>
    /\ UNCHANGED <<validation, stderr>>

NextClient ==
    \/ start
    \/ send_request_write
    \/ send_request_read
    \/ send_notification
    \/ stop
    \/ Tick
    \/ stop_returns
    \/ stop_raises
    \/ PeerAnswer
    \/ PeerUnasked
    \/ PeerExit

SpecClient == InitClient /\ [][NextClient]_vars

\* -------------------------------------------------------- ValidationReport
\* A ValidationReport in a caller's hands: returned by validate_tool_definitions
\* or built and extended by add_error and add_warning calls.

\* report.add_error(category, message)
add_error ==
    /\ Len(issues) < MaxIssues
    /\ \E c \in Categories : issues' = Append(issues, ValidationIssue("error", c, Text("")))
    /\ pc' = "add_error"
    /\ UNCHANGED <<io, process, request_id, peer, stdin, stdout, report, resp, resp2, exc, waited, odd, tool_list, project, exit_code>>
    /\ UNCHANGED stderr

\* report.add_warning(category, message)
add_warning ==
    /\ Len(issues) < MaxIssues
    /\ \E c \in Categories : issues' = Append(issues, ValidationIssue("warning", c, Text("")))
    /\ pc' = "add_warning"
    /\ UNCHANGED <<io, process, request_id, peer, stdin, stdout, report, resp, resp2, exc, waited, odd, tool_list, project, exit_code>>
    /\ UNCHANGED stderr

\* report = validate_tool_definitions(tools): a new report that depends on
\* nothing but `tools`, so the call is made once, by a caller with none in hand.
\* When the duplicate loop raises, the caller gets no report.
ValidateTools ==
    /\ pc = "start"
    /\ \E ts \in ToolDefLists(MaxToolDefs) :
            /\ tool_list' = ts
            /\ IF LookupRaises(ts) THEN
                    /\ exc' = [type |-> "TypeError", at |-> "validate_tool_definitions"]
                    /\ UNCHANGED issues
               ELSE /\ issues' = validate_tool_definitions(ts)
                    /\ UNCHANGED exc
    /\ pc' = "validate_tool_definitions"
    /\ UNCHANGED <<io, process, request_id, peer, stdin, stdout, report, resp, resp2, waited, odd, project, exit_code>>
    /\ UNCHANGED stderr

\* report = validate_project_structure(project_dir), called like
\* validate_tool_definitions above. packages[0] is the package iterdir() yields
\* first, in an order the file system chooses; iterdir() on a src that is a
\* file raises NotADirectoryError and the caller gets no report.
ValidateProject ==
    /\ pc = "start"
    /\ \E p \in Projects :
            /\ project' = p
            /\ IF p.src = "file" THEN
                    /\ exc' = [type |-> "NotADirectoryError", at |-> "validate_project_structure"]
                    /\ UNCHANGED issues
               ELSE /\ \E pkg \in (IF p.packages = {} THEN {{}} ELSE p.packages) :
                            issues' = validate_project_structure(p, pkg)
                    /\ UNCHANGED exc
    /\ pc' = "validate_project_structure"
    /\ UNCHANGED <<io, process, request_id, peer, stdin, stdout, report, resp, resp2, waited, odd, tool_list, exit_code>>
    /\ UNCHANGED stderr

NextValidation ==
    \/ add_error
    \/ add_warning
    \/ ValidateTools
    \/ ValidateProject

SpecValidation == Init /\ [][NextValidation]_vars

\* --------------------------------------------------------------------- CLI
\* cli.py: one invocation of `mcp-forge test` or `mcp-forge validate`, up to the
\* exit status of the process.

InitCli ==
    /\ pc = "cli"
    /\ io = "idle"
    /\ process = "None"
    /\ request_id = 0
    /\ peer = "none"
    /\ stdin = <<>>
    /\ stdout = <<>>
    /\ report = <<>>
    /\ resp = Unbound
    /\ resp2 = Unbound
    /\ exc = NoExc
    /\ waited = 0
    /\ odd = 0
    /\ issues = <<>>
    /\ tool_list = <<>>
    /\ project = NoProject
    /\ exit_code = <<>>
    /\ stderr = 0

\* `test` up to the call of run_test_suite; click rejects a --cwd that does not
\* exist with exit status 2.
test ==
    /\ pc = "cli"
    /\ \/ pc' = "start" /\ UNCHANGED exit_code
       \/ pc' = "usage" /\ exit_code' = <<2>>
    /\ UNCHANGED <<io, process, request_id, peer, stdin, stdout, report, resp, resp2, exc, waited, odd, issues, tool_list, project>>
    /\ UNCHANGED stderr

\* `test` after run_test_suite: SystemExit(1) when report.failed > 0, else a
\* normal return; an exception run_test_suite raised ends the process with a
\* traceback and status 1.
test_exit ==
    /\ pc \in {"returned", "raised"}
    /\ exit_code = <<>>
    /\ exit_code' = (IF pc = "raised" THEN <<1>> ELSE IF Failed(report) > 0 THEN <<1>> ELSE <<0>>)
    /\ UNCHANGED <<pc, io, process, request_id, peer, stdin, stdout, report, resp, resp2, exc, waited, odd, issues, tool_list, project>>
    /\ UNCHANGED stderr

\* `validate`: click rejects a path that does not exist with status 2; iterdir
\* on a src that is a file raises out of the command (traceback, status 1);
\* otherwise SystemExit(1) unless report.is_valid.
validate ==
    /\ pc = "cli"
    /\ pc' = "validate"
    /\ \E p \in Projects :
            /\ project' = p
            /\ IF ~p.exists THEN
                    /\ exit_code' = <<2>>
                    /\ UNCHANGED <<issues, exc>>
               ELSE IF p.src = "file" THEN
                    /\ issues' = PyprojectIssues(p)
                    /\ exc' = [type |-> "NotADirectoryError", at |-> "validate"]
                    /\ exit_code' = <<1>>
               ELSE /\ \E pkg \in (IF p.packages = {} THEN {{}} ELSE p.packages) :
                            issues' = validate_project_structure(p, pkg)
                    /\ exit_code' = (IF is_valid(issues') THEN <<0>> ELSE <<1>>)
                    /\ UNCHANGED exc
    /\ UNCHANGED <<io, process, request_id, peer, stdin, stdout, report, resp, resp2, waited, odd, tool_list>>
    /\ UNCHANGED stderr

NextCli ==
    \/ test
    \/ Start
    \/ ProbeWrite
    \/ PeerReply
    \/ PeerExit
    \/ ProbeRead
    \/ StopTerminate
    \/ Tick
    \/ StopDone
    \/ StopTimedOut
    \/ test_exit
    \/ validate

SpecCli == InitCli /\ [][NextCli]_vars

\* ------------------------------------------------------------ stderr pipe
\* start() opens the peer's standard error as a pipe (stderr=subprocess.PIPE)
\* and nothing in the client reads it: what the peer writes there stays in the
\* pipe, and a write that does not fit blocks the peer.

\* The peer writes a chunk of diagnostics, which the pipe still holds.
PeerLogs ==
    /\ peer = "running"
    /\ stderr < PipeCapacity
    /\ stderr' = stderr + 1
    /\ UNCHANGED <<pc, io, process, request_id, peer, stdin, stdout, report, resp, resp2, exc, waited, odd, validation>>

\* The peer writes a chunk to the full pipe: the write blocks.
PeerBlocks ==
    /\ peer = "running"
    /\ stderr = PipeCapacity
    /\ peer' = "blocked"
    /\ UNCHANGED <<pc, io, process, request_id, stdin, stdout, report, resp, resp2, exc, waited, odd, validation, stderr>>

\* terminate() ends a peer that is blocked in a write.
PeerKilled ==
    /\ pc = "wait"
    /\ peer = "blocked"
    /\ peer' = "exited"
    /\ UNCHANGED <<pc, io, process, request_id, stdin, stdout, report, resp, resp2, exc, waited, odd, validation, stderr>>

NextStderr ==
    \/ Start
    \/ ProbeWrite
    \/ PeerReply
    \/ PeerExit
    \/ ProbeRead
    \/ StopTerminate
    \/ Tick
    \/ StopDone
    \/ StopTimedOut
    \/ PeerLogs
    \/ PeerBlocks
    \/ PeerKilled

SpecStderr == Init /\ [][NextStderr]_vars

\* ---------------------------------------------------------------- progress
\* run_test_suite under the conditions that let it make progress: the client's
\* own steps are taken when they can be, time passes while stop() waits, the
\* peer answers a request in flight or exits, and it exits once terminate() has
\* been called (at some time, which wait(timeout=5) may or may not outlast).
Fairness ==
    /\ WF_vars(Start)
    /\ WF_vars(ProbeWrite)
    /\ WF_vars(ProbeRead)
    /\ WF_vars(StopTerminate)
    /\ WF_vars(StopDone)
    /\ WF_vars(StopTimedOut)
    /\ WF_vars(Tick)
    /\ WF_vars((PeerReply \/ PeerExit) /\ io = "wait")
    /\ WF_vars(PeerExit /\ pc = "wait")

SpecLive == Init /\ [][Next]_vars /\ Fairness

\* ------------------------------------------------------------------ claims

\* The names of the results of a report, in order.
Names(results) == [i \in 1..Len(results) |-> results[i].name]


\* The exceptions send_request raises itself: no reply was returned to the probe.
TransportErrors == {"Server not started", "BrokenPipeError", "No response from server", "JSONDecodeError"}

\* C1: a report that run_test_suite returns holds a server_stop result if and
\* only if its server_start result is passing.
C1_StopIffStartPassed ==
    pc = "returned" =>
        ((\E i \in 1..Len(report) : report[i].name = "server_stop")
            <=> (\E i \in 1..Len(report) : report[i].name = "server_start" /\ report[i].passed))

C1_Witness ==
    /\ pc = "returned"
    /\ Len(report) > 1
    /\ report[1].name = "server_start" /\ report[1].passed
    /\ Last(report).name = "server_stop"

\* C2: when starting the peer fails the report holds exactly one result, a
\* failing server_start carrying the failure's message; nothing was written to a
\* peer, no id was used, no process is held, and the run is over.
C2_StartFailureEndsRun ==
    (report # <<>> /\ ~report[1].passed) =>
        /\ pc = "returned"
        /\ report = <<TestResult("server_start", FALSE, Str(exc.type), FALSE)>>
        /\ exc.at = "start" /\ exc.type \in StartErrors
        /\ stdin = <<>> /\ request_id = 0
        /\ process = "None" /\ peer = "none"

C2_Witness ==
    /\ pc = "returned"
    /\ Len(report) = 1
    /\ ~report[1].passed
    /\ report[1].message = Str("FileNotFoundError")

\* The failure the client meets in its next step at a request position: the
\* write on a dead pipe, end-of-stream, a line that is not JSON, a reply whose
\* shape makes the probe's body raise; "none" when the step meets none.
FailureMet ==
    IF io = "idle" THEN (IF peer = "running" THEN "none" ELSE "BrokenPipeError")
    ELSE IF stdout = <<>> THEN "No response from server"
    ELSE IF ~Head(stdout).valid THEN "JSONDecodeError"
    ELSE IF Body(pc, Head(stdout).json).kind = "raise" THEN Body(pc, Head(stdout).json).exc
    ELSE "none"

\* C3: once server_start has passed, a failure met inside a probe becomes one
\* failing result of that probe carrying the failure's message, and the run
\* moves on to the next probe instead of ending.
C3_ProbeFailureIsRecorded ==
    [][(pc \in RequestPcs /\ (pc' # pc \/ io' # io) /\ FailureMet # "none") =>
            /\ report' = Append(report, TestResult(ProbeName(pc), FALSE, Str(FailureMet), FALSE))
            /\ pc' = NextPc(pc)
            /\ io' = "idle"]_vars

C3_Witness ==
    \E i \in 2..Len(report) :
        /\ report[i].message = Str("JSONDecodeError")
        /\ \E j \in (i+1)..Len(report) : report[j].passed /\ report[j].name # "server_stop"

\* C4: when the peer is still running after the 5 time units of wait(), stop()
\* completes all the same: the run records a passing server_stop and returns.
C4_StopIsBestEffort ==
    [][(pc = "wait" /\ peer = "running" /\ waited = StopTimeout /\ pc' # pc) =>
            /\ pc' = "returned"
            /\ report' = Append(report, TestResult("server_stop", TRUE, Text("Server stopped cleanly"), FALSE))]_vars

\* C5: the results of a run whose server_start passed are recorded in the order
\* of the probes, one each; once the run has returned they are all seven.
C5_OneResultPerProbeInOrder ==
    (report # <<>> /\ report[1].passed) =>
        /\ Len(report) <= Len(ProbeOrder)
        /\ Names(report) = SubSeq(ProbeOrder, 1, Len(report))
        /\ pc = "returned" => Len(report) = Len(ProbeOrder)

C5_Witness ==
    /\ pc = "returned"
    /\ Len(report) = 7
    /\ \E i \in 2..6 : ~report[i].passed
    /\ \E i \in 2..6 : report[i].passed

\* C6: total = passed + failed for every report, each count being that of the
\* results the report holds now.
C6_TotalIsPassedPlusFailed == Total(report) = Passed(report) + Failed(report)

C6_Witness ==
    /\ Len(report) = 3
    /\ Passed(report) = 1
    /\ report[2].name = report[3].name /\ ~report[2].passed /\ ~report[3].passed

\* The reply has a "result" key: it is an object holding one.
HasResultKey(r) == r.jtype = "object" /\ r.hasResult

\* send_request returned a reply to the probe that finished last.
Replied == exc.type \notin TransportErrors

\* The run stands right after the probe recorded as the n-th result.
After(p) == pc = p /\ io = "idle"

\* The keys in the order the "Missing fields" message lists them:
\* version=, info=, caps=.
KeyOfFlag == <<"protocolVersion", "serverInfo", "capabilities">>

\* The keys a message lists.
NamedKeys(m) == {KeyOfFlag[i] : i \in 1..Len(m.flags)}

\* The keys a message lists with the flag False.
FlaggedAbsent(m) == {KeyOfFlag[i] : i \in {j \in 1..Len(m.flags) : ~m.flags[j]}}

\* The reply's result is a container holding all of the three keys.
HoldsInitKeys(r) == HasResultKey(r) /\ r.result.rtype # "scalar" /\ InitKeys \subseteq r.result.keys

\* The reply's result is a container lacking one of the three keys.
LacksInitKey(r) == HasResultKey(r) /\ r.result.rtype # "scalar" /\ ~(InitKeys \subseteq r.result.keys)

C8_ToolsListNeedsToolsList ==
    After("refetch") =>
        (report[3].passed <=>
            (Replied /\ HasResultKey(resp) /\ resp.result.rtype = "object" /\ resp.result.tools.vtype = "list"))

\* The reply is a result whose tools field is the empty list.
EmptyToolsReply(r) == HasResultKey(r) /\ r.result.rtype = "object" /\ r.result.tools = EmptyList

\* After the tools/call probe: its first request, the re-fetch, was answered.
RefetchReplied == exc = NoExc \/ exc.at = "tools/call" \/ (exc.at = "refetch" /\ Replied)

\* After the tools/call probe: its second request, the call, was answered.
CallReplied == exc = NoExc \/ (exc.at = "tools/call" /\ Replied)

Skipped == TestResult("tools/call", TRUE, Text("No tools to test (skipped)"), FALSE)

\* C9: an empty tool list makes the tools/list probe pass; re-fetched by the
\* tools/call probe it makes that probe record a passing "skipped" result, and
\* then no tools/call request is written in the run.
C9_EmptyToolListSkipsCall ==
    /\ (After("refetch") /\ Replied /\ EmptyToolsReply(resp)) =>
            report[3].name = "tools/list" /\ report[3].passed
    /\ (After("ping") /\ RefetchReplied /\ EmptyToolsReply(resp)) => report[4] = Skipped
    /\ (Len(report) >= 4 /\ report[4] = Skipped) =>
            \A i \in 1..Len(stdin) : stdin[i].method # "tools/call"

C9_Witness ==
    /\ After("ping")
    /\ exc = NoExc
    /\ EmptyToolsReply(resp)
    /\ report[3] = TestResult("tools/list", TRUE, Msg("Found tools", <<>>, 0, ""), TRUE)
    /\ report[4] = Skipped
    /\ Len(stdin) = 3

\* The re-fetched reply lists at least one tool, and the first has a name.
ListsNamedTool(r) ==
    /\ HasResultKey(r) /\ r.result.rtype = "object"
    /\ r.result.tools.vtype = "list" /\ r.result.tools.len > 0 /\ r.result.tools.first = "named"

\* The reply is a result whose content is a non-empty list.
NonEmptyContentList(r) ==
    /\ HasResultKey(r) /\ r.result.rtype = "object"
    /\ r.result.content.vtype = "list" /\ r.result.content.len > 0

\* C10: when the re-fetched tool list is non-empty the tools/call probe sends
\* tools/call with the first tool's name and arguments {"query": "test"} (unless
\* the pipe is dead), and passes iff the reply has a result whose content is a
\* non-empty list.
C10_CallPassesIffContentList ==
    (After("ping") /\ RefetchReplied /\ ListsNamedTool(resp)) =>
        /\ \/ exc = [type |-> "BrokenPipeError", at |-> "tools/call"]
           \/ /\ stdin # <<>>
              /\ Last(stdin) = Request(request_id, "tools/call",
                    << <<"name", resp.result.tools.name>>, <<"arguments", "{query: test}">> >>)
        /\ report[4].name = "tools/call"
        /\ report[4].passed <=> (CallReplied /\ NonEmptyContentList(resp2))

\* The reply has an "error" field: it is an object holding one.
HasErrorKey(r) == r.jtype = "object" /\ r.hasError

\* C11: the unknown_method probe passes iff the reply to the nonexistent
\* method has an error field; a reply with a result and no error fails.
C11_UnknownPassesIffErrorField ==
    After("stop") =>
        /\ report[6].name = "unknown_method"
        /\ report[6].passed <=> (Replied /\ HasErrorKey(resp))

\* C12: the ping probe passes iff the reply has a result field, whatever its
\* value; a reply without one fails.
C12_PingPassesIffResultField ==
    After("unknown_method") =>
        /\ report[5].name = "ping"
        /\ report[5].passed <=> (Replied /\ HasResultKey(resp))

\* The peer has exited and left no unread line behind.
PeerGone == peer = "exited" /\ stdout = <<>>

\* C16: once the peer has exited (right after answering initialize, or at any
\* later point) every request probe the run goes through records one failing
\* result of that probe, carrying the pipe's failure, and moves on; stop() then
\* completes, server_stop is recorded and the run returns its report.
C16_DeadPeerFailsLaterProbes ==
    [][(PeerGone /\ pc' # pc) =>
            IF pc \in RequestPcs THEN
                /\ \E e \in {"BrokenPipeError", "No response from server"} :
                        report' = Append(report, TestResult(ProbeName(pc), FALSE, Str(e), FALSE))
                /\ pc' = NextPc(pc)
            ELSE IF pc = "stop" THEN pc' = "wait" /\ report' = report
            ELSE /\ pc = "wait"
                 /\ pc' = "returned"
                 /\ report' = Append(report, TestResult("server_stop", TRUE, Text("Server stopped cleanly"), FALSE))]_vars

C16_Witness ==
    /\ pc = "returned"
    /\ Len(stdin) = 1
    /\ Len(report) = 7
    /\ report[2].name = "initialize" /\ report[2].passed
    /\ \A i \in 3..6 : ~report[i].passed /\ report[i].message = Str("BrokenPipeError")
    /\ Names(report) = ProbeOrder

\* The requests among the messages the client wrote, in the order written.
Requests == SelectSeq(stdin, IsRequest)

\* C13: the ids of the requests a client wrote are 1, 2, 3, ... in the order
\* written (so they start at 1, increase strictly and never repeat), whatever
\* calls were made around them and whichever of them failed.
C13_IdsCountUpFromOne ==
    /\ \A i \in 1..Len(Requests) : Requests[i].id = i
    /\ \A i, j \in 1..Len(Requests) : i < j => Requests[i].id < Requests[j].id
    /\ Len(Requests) <= request_id

C13_Witness ==
    /\ Len(stdin) = 3
    /\ ~IsRequest(stdin[2])
    /\ IsRequest(stdin[3]) /\ stdin[3].id = 2
    /\ pc = "send_request" /\ io = "idle"
    /\ exc.type = "JSONDecodeError"

\* C14: while the peer has written nothing but answers echoing the id of the
\* request they answer, the reply send_request returns carries the id of the
\* request that call wrote.
C14_ReplyCarriesRequestId ==
    [][(odd = 0 /\ pc = "send_request" /\ io = "wait" /\ io' = "idle" /\ exc' = NoExc) =>
            /\ IsRequest(Last(stdin))
            /\ Last(stdin).id = request_id
            /\ resp'.id = request_id]_vars

C14_Witness ==
    /\ odd = 0
    /\ pc = "send_request" /\ io = "idle" /\ exc = NoExc
    /\ request_id = 2
    /\ resp = Reply(TRUE, WellFormed(Last(stdin).method).json, 2)

\* C15: a request is written only when no request is in flight; while one is in
\* flight the client writes nothing, and the call ends by taking exactly one
\* line from the peer's output or by meeting the end of the stream.
C15_OneRequestInFlight ==
    [][/\ (stdin' # stdin /\ IsRequest(Last(stdin'))) =>
                (io = "idle" /\ io' = "wait" /\ stdin' = Append(stdin, Last(stdin')))
       /\ io = "wait" => stdin' = stdin
       /\ (io = "wait" /\ io' # "wait") =>
                /\ io' = "idle"
                /\ IF stdout # <<>> THEN stdout' = Tail(stdout)
                   ELSE peer = "exited" /\ stdout' = stdout]_vars

C15_Witness ==
    /\ io = "wait"
    /\ Len(Requests) = 2
    /\ Len(stdin) = 2
    /\ resp # Unbound /\ resp.id = 1

\* C17: a send_notification call on a started client with a live peer writes
\* exactly one message, without an id; whether it succeeds or raises it reads
\* nothing from the peer and leaves the request id counter as it was.
C17_NotificationKeepsCounter ==
    [][(pc' = "send_notification" /\ peer' = peer /\ odd' = odd) =>
            /\ request_id' = request_id
            /\ stdout' = stdout /\ resp' = resp /\ io' = "idle"
            /\ \/ stdin' = stdin
               \/ /\ Len(stdin') = Len(stdin) + 1
                  /\ SubSeq(stdin', 1, Len(stdin)) = stdin
                  /\ ~IsRequest(Last(stdin'))
            /\ (process = "Popen" /\ peer = "running" /\ vars' # vars) =>
                    (stdin' # stdin /\ exc' = NoExc)]_vars

C17_Witness ==
    /\ Len(stdin) = 3
    /\ stdin[1] = Request(1, "ping", <<>>)
    /\ stdin[2] = Notification("notifications/initialized", <<>>)
    /\ stdin[3] = Request(2, "ping", <<>>)

\* C18: stop() on a client that holds no process (never started, or stopped
\* before) returns without raising and changes nothing: no process is signalled
\* or waited for, and the client still holds no process.
C18_StopWithoutProcessIsNoOp ==
    [][/\ pc' = "wait" => process = "Popen"
       /\ (process = "None" /\ pc' = "stop") =>
                /\ exc' = NoExc
                /\ process' = "None"
                /\ UNCHANGED <<io, request_id, peer, stdin, stdout, resp, waited>>]_vars

C18_Witness ==
    /\ pc = "stop"
    /\ process = "None"
    /\ peer = "exited"
    /\ exc = NoExc
    /\ stdin # <<>>

\* The outcome of the command that exited has failures: a validation report
\* with an error-level issue, a test report with a failing result.
OutcomeHasFailures ==
    IF pc = "validate" THEN \E i \in 1..Len(issues) : issues[i].level = "error"
    ELSE Failed(report) > 0

\* C19: the exit status of `test` is 1 iff the report's failed count is above
\* 0, and that of `validate` is 1 iff the validation report holds an
\* error-level issue.
C19_ExitOneIffFailures == exit_code # <<>> => (exit_code = <<1>> <=> OutcomeHasFailures)

\* C20: a ValidationReport is valid iff none of its issues is of level error,
\* however it was built; the report validate_tool_definitions returns for an
\* empty tool list is valid and holds one warning and nothing else.
C20_ValidIffNoError ==
    /\ is_valid(issues) <=> (\A i \in 1..Len(issues) : issues[i].level # "error")
    /\ (pc = "validate_tool_definitions" /\ tool_list = <<>>) =>
            /\ is_valid(issues)
            /\ Len(warnings(issues)) = 1
            /\ Len(errors(issues)) = 0
            /\ Len(issues) = 1

C20_Witness ==
    /\ pc = "validate_tool_definitions"
    /\ tool_list = <<>>
    /\ issues = <<ValidationIssue("warning", "tools", Text("No tools defined"))>>

\* The positions of the list whose tool has a name that an earlier tool has too.
LaterOccurrences(ts) ==
    {j \in 1..Len(ts) : ts[j].name # Missing /\ \E i \in 1..(j - 1) : ts[i].name = ts[j].name}

\* The 'Duplicate tool name' errors of a report.
DuplicateIssues(iss) ==
    LET IsDuplicate(i) == i.level = "error" /\ i.message.kind = "Duplicate tool name"
    IN  SelectSeq(iss, IsDuplicate)

\* C21: validate_tool_definitions returns a report for every tool list; the
\* report holds one 'Duplicate tool name' error for each occurrence of a name
\* after its first, so it is invalid whenever two tools share a name.
C21_SharedNameIsInvalid ==
    pc = "validate_tool_definitions" =>
        /\ exc = NoExc
        /\ Len(DuplicateIssues(issues)) = Cardinality(LaterOccurrences(tool_list))
        /\ LaterOccurrences(tool_list) # {} => ~is_valid(issues)

\* pyproject.toml exists, src/ is there, and src/ holds a package that holds
\* both server.py and tools.py.
CompleteProject(p) ==
    /\ p.pyproject
    /\ p.src = "dir"
    /\ \E pkg \in p.packages : Range(required_files) \subseteq pkg

\* C22: validate_project_structure returns a report that is valid iff the
\* project holds pyproject.toml and a src/ with a package holding server.py and
\* tools.py; the recommended files have no part in it.
C22_ValidIffComplete ==
    pc = "validate_project_structure" =>
        /\ exc = NoExc
        /\ is_valid(issues) <=> CompleteProject(project)

\* C23: the client is never blocked in readline on the peer's standard output
\* while the peer is blocked writing to its full standard-error pipe.
C23_NoStderrDeadlock == ~(io = "wait" /\ stdout = <<>> /\ peer = "blocked")

\* C24: with a peer that answers every request or closes its output, and that
\* exits after terminate(), run_test_suite eventually returns its report.
C24_RunReturns == <>(pc = "returned")

\* The reply is an error reply (an object without a result), or an object whose
\* result is a mapping without a tools field.
NoToolsReply(r) ==
    /\ r.jtype = "object"
    /\ ~r.hasResult \/ (r.result.rtype = "object" /\ r.result.tools = Absent)

\* C25: when the re-fetched tools/list reply is an error reply or a result
\* without a tools field, the tools/call probe records the passing "skipped"
\* result and no tools/call request is written, whatever the tools/list probe
\* before it recorded.
C25_NoToolsFieldSkipsCall ==
    (After("ping") /\ RefetchReplied /\ NoToolsReply(resp)) =>
        /\ report[4] = Skipped
        /\ exc = NoExc
        /\ \A i \in 1..Len(stdin) : stdin[i].method # "tools/call"

C25_Witness ==
    /\ After("ping")
    /\ exc = NoExc
    /\ ~resp.hasResult /\ resp.hasError /\ resp.jtype = "object"
    /\ report[3].name = "tools/list" /\ ~report[3].passed
    /\ report[4] = Skipped
    /\ Len(stdin) = 3

\* The two calls that send a message.
SendCalls == {"send_request", "send_notification"}

\* C26: send_request and send_notification on a client that holds no process
\* (never started, or stopped) raise 'Server not started', write nothing, read
\* nothing and leave the request id counter as it was; a send_request that
\* raises at the write has taken its id without writing, and one that raises at
\* the read leaves the counter at the id of the request it wrote.
C26_NotStartedConsumesNoId ==
    [][/\ \A c \in SendCalls :
            (Ready /\ process = "None" /\ pc' = c) =>
                /\ exc' = [type |-> "Server not started", at |-> c]
                /\ UNCHANGED <<stdin, stdout, request_id, io, process, resp>>
       /\ (Ready /\ process = "Popen" /\ pc' = "send_request" /\ exc' # NoExc
                /\ peer' = peer /\ odd' = odd) =>
                /\ exc'.type = "BrokenPipeError"
                /\ request_id' = request_id + 1
                /\ stdin' = stdin
       /\ (pc = "send_request" /\ io = "wait" /\ io' = "idle" /\ exc' # NoExc) =>
                /\ exc'.type \in {"No response from server", "JSONDecodeError"}
                /\ request_id' = request_id
                /\ IsRequest(Last(stdin)) /\ Last(stdin).id = request_id]_vars

C26_Witness ==
    /\ pc = "send_request"
    /\ exc = [type |-> "Server not started", at |-> "send_request"]
    /\ process = "None"
    /\ peer = "exited"
    /\ request_id = 1
    /\ Len(stdin) = 1 /\ stdin[1].id = 1

====
